---- MODULE Spec2Model ----
(***************************************************************************)
(* Property/Matter evaluation model and pipe axial-velocity profile of     *)
(* coloredlids.                                                            *)
(*                                                                         *)
(* A Matter instance is a record of calc rules, one per Property member.   *)
(* A rule is a tagged value; evaluating a rule follows the lambda or the   *)
(* method the source assigns to Property.calc.  Floats are decimal floats  *)
(* m * 10^e of 8 digits, Python's None and the exceptions a computation    *)
(* raises are further kinds of value.                                      *)
(***************************************************************************)
EXTENDS Integers, Sequences, FiniteSets, TLC

VARIABLES inst, last

vars == <<inst, last>>

(***************************************************************************)
(* Values                                                                  *)
(***************************************************************************)

\* kinds of value that are exceptions raised by the interpreter
ErrorKinds ==
    {"TypeError", "ZeroDivisionError", "RecursionError", "AssertionError",
     "AttributeError"}

Special(kind) == [k |-> kind, m |-> 0, e |-> 0]

NoneVal == Special("None")

IsErr(v) == v.k \in ErrorKinds

IsNum(v) == v.k = "num"

AbsInt(i) == IF i < 0 THEN -i ELSE i

SignInt(i) == IF i > 0 THEN 1 ELSE IF i < 0 THEN -1 ELSE 0

RECURSIVE Pow10(_)
Pow10(i) == IF i <= 0 THEN 1 ELSE 10 * Pow10(i - 1)

\* the number of decimal digits of the natural number i (0 has none)
RECURSIVE Digits(_)
Digits(i) == IF i = 0 THEN 0 ELSE 1 + Digits(i \div 10)

\* A float is m * 10^e in canonical form: |m| has at most 8 digits and no
\* trailing zero, zero is m = 0, e = 0.  Every operation rounds its exact result
\* to 8 digits, ties to even, as float arithmetic rounds to its 53 bits.
RECURSIVE Strip(_, _)
Strip(m, e) ==
    IF m = 0 THEN [k |-> "num", m |-> 0, e |-> 0]
    ELSE IF m % 10 = 0 THEN Strip(m \div 10, e + 1)
    ELSE [k |-> "num", m |-> m, e |-> e]

\* the literal m * 10^e of the source (|m| < 10^8)
Num(m, e) == Strip(m, e)

Whole(i) == Num(i, 0)

Zero == Whole(0)

One == Whole(1)

Neg(a) == [a EXCEPT !.m = -a.m]

RoundHalfEven(q, r, half, sticky) ==
    IF r > half \/ (r = half /\ (sticky \/ q % 2 = 1)) THEN q + 1 ELSE q

\* sign * (mag + a fraction, present when sticky) * 10^e with the last k
\* digits of mag rounded away
RoundAway(sign, mag, e, sticky, k) ==
    IF k <= 0 THEN Strip(sign * mag, e)
    ELSE Strip(sign * RoundHalfEven(mag \div Pow10(k), mag % Pow10(k),
                                    5 * Pow10(k - 1), sticky), e + k)

\* sign * (mag + a fraction, present when sticky) * 10^e rounded to 8 digits
Round8(sign, mag, e, sticky) == RoundAway(sign, mag, e, sticky, Digits(mag) - 8)

Min(i, j) == IF i < j THEN i ELSE j

\* sh * H * 10^e + sl * (L + R/P) * 10^e, where H has 9 digits unless R = 0
AddParts(sh, H, e, sl, L, R, P) ==
    IF sh = sl THEN Round8(sh, H + L, e, R # 0)
    ELSE IF R = 0 THEN Round8(sh * SignInt(H - L), AbsInt(H - L), e, FALSE)
    ELSE IF H - L > Pow10(8) THEN Round8(sh, H - L - 1, e, TRUE)
    ELSE IF 2 * R < P \/ (2 * R = P /\ (H - L) % 2 = 0) THEN Strip(sh * (H - L), e)
    ELSE Strip(sh * (H - L - 1), e)

AddSplit(sh, H, e, sl, l, P) == AddParts(sh, H, e, sl, l \div P, l % P, P)

\* sh * H * 10^e + sl * l * 10^(e - s): the s last digits of l lie below the
\* last digit of H (beyond 8 digits all of l does, and is less than half of it)
AddAligned(sh, H, e, sl, l, s) ==
    IF s > 8 THEN AddParts(sh, H, e, sl, 0, 1, 10)
    ELSE AddSplit(sh, H, e, sl, l, Pow10(s))

AddShifted(hi, lo, up) ==
    AddAligned(SignInt(hi.m), AbsInt(hi.m) * Pow10(up), hi.e - up,
               SignInt(lo.m), AbsInt(lo.m), hi.e - up - lo.e)

\* hi + lo for hi.e >= lo.e: the mantissa of hi is widened towards the exponent
\* of lo, to 9 digits at most
AddOrdered(hi, lo) ==
    AddShifted(hi, lo, Min(hi.e - lo.e, 9 - Digits(AbsInt(hi.m))))

\* a + b
AddNum(a, b) ==
    IF a.m = 0 THEN b
    ELSE IF b.m = 0 THEN a
    ELSE IF a.e >= b.e THEN AddOrdered(a, b)
    ELSE AddOrdered(b, a)

SubNum(a, b) == AddNum(a, Neg(b))

\* -1, 0, 1 as a < b, a = b, a > b
Cmp(a, b) == SignInt(SubNum(a, b).m)

Less(a, b) == Cmp(a, b) < 0

AbsNum(v) == IF v.m < 0 THEN Neg(v) ELSE v

\* the exact product a * b of two naturals below 10^8 as <<hi, lo>>, the
\* digits above and below 10^8
RECURSIVE MulWide(_, _)
MulWide(a, b) ==
    IF b = 0 THEN <<0, 0>>
    ELSE LET w == MulWide(a, b \div 10)
             l10 == w[2] * 10
             l1 == (l10 % Pow10(8)) + a * (b % 10)
         IN  <<w[1] * 10 + (l10 \div Pow10(8)) + (l1 \div Pow10(8)),
               l1 % Pow10(8)>>

\* a * b
MulNum(a, b) ==
    LET w == MulWide(AbsInt(a.m), AbsInt(b.m))
        sign == SignInt(a.m) * SignInt(b.m)
        k == Digits(w[1])
    IN  IF k = 0 THEN Strip(sign * w[2], a.e + b.e)
        ELSE Strip(sign * RoundHalfEven(w[1] * Pow10(8 - k) + w[2] \div Pow10(k),
                                        w[2] % Pow10(k), 5 * Pow10(k - 1), FALSE),
                   a.e + b.e + k)

\* long division: digits are appended to the quotient q until it has 9 of them
\* or the remainder r is zero
RECURSIVE LongDiv(_, _, _, _)
LongDiv(q, r, b, e) ==
    IF q >= Pow10(8) \/ r = 0 THEN <<q, r, e>>
    ELSE LongDiv(q * 10 + (r * 10) \div b, (r * 10) % b, b, e - 1)

\* a / b
DivNum(a, b) ==
    LET t == LongDiv(AbsInt(a.m) \div AbsInt(b.m), AbsInt(a.m) % AbsInt(b.m),
                     AbsInt(b.m), a.e - b.e)
    IN  IF b.m = 0 THEN Special("ZeroDivisionError")
        ELSE Round8(SignInt(a.m) * SignInt(b.m), t[1], t[3], t[2] # 0)

\* The result of a binary operation of Python whose operands are not both
\* floats: the operands are evaluated left to right and an exception of an
\* operand propagates, None is no operand of arithmetic, a complex operand
\* yields a complex number, nan yields nan; "real" is a float the model does
\* not follow (an irrational root or power).
NonNumeric(a, b) ==
    IF IsErr(a) THEN a
    ELSE IF IsErr(b) THEN b
    ELSE IF a.k = "None" \/ b.k = "None" THEN Special("TypeError")
    ELSE IF a.k = "complex" \/ b.k = "complex" THEN Special("complex")
    ELSE IF a.k = "nan" \/ b.k = "nan" THEN Special("nan")
    ELSE Special("real")

Add(a, b) == IF IsNum(a) /\ IsNum(b) THEN AddNum(a, b) ELSE NonNumeric(a, b)

Sub(a, b) == IF IsNum(a) /\ IsNum(b) THEN SubNum(a, b) ELSE NonNumeric(a, b)

Mul(a, b) == IF IsNum(a) /\ IsNum(b) THEN MulNum(a, b) ELSE NonNumeric(a, b)

Div(a, b) == IF IsNum(a) /\ IsNum(b) THEN DivNum(a, b) ELSE NonNumeric(a, b)

\* the largest i in lo..hi with i * i <= m
RECURSIVE ISqrt(_, _, _)
ISqrt(m, lo, hi) ==
    IF lo >= hi THEN lo
    ELSE IF ((lo + hi + 1) \div 2) * ((lo + hi + 1) \div 2) <= m
         THEN ISqrt(m, (lo + hi + 1) \div 2, hi)
    ELSE ISqrt(m, lo, (lo + hi + 1) \div 2 - 1)

\* the root of m * 10^e, e even, given the integer root of m
SqrtExact(m, e, root) ==
    IF root * root = m THEN Num(root, e \div 2) ELSE Special("real")

\* np.sqrt(v): nan below zero, the exact root of a square, any other root is a
\* float the model does not follow
Sqrt(v) ==
    IF ~IsNum(v) THEN NonNumeric(v, v)
    ELSE IF v.m < 0 THEN Special("nan")
    ELSE IF v.m = 0 THEN Zero
    ELSE IF v.e % 2 = 0 THEN SqrtExact(v.m, v.e, ISqrt(v.m, 0, 31622))
    ELSE SqrtExact(v.m * 10, v.e - 1, ISqrt(v.m * 10, 0, 31622))

\* b ** ex; np tells that ex is a numpy float, whose power of a negative base
\* is nan where Python's is a complex number
Power(b, ex, np) ==
    IF IsNum(b) /\ b = One /\ ex.k = "nan" THEN One
    ELSE IF ~(IsNum(b) /\ IsNum(ex)) THEN NonNumeric(b, ex)
    ELSE IF ex = Zero \/ b = One THEN One
    ELSE IF ex = One THEN b
    ELSE IF ex = Whole(2) THEN MulNum(b, b)
    ELSE IF b.m = 0 /\ ex.m > 0 THEN Zero
    ELSE IF b.m = 0 THEN Special("ZeroDivisionError")
    ELSE IF b.m < 0 /\ ex.e < 0 /\ np THEN Special("nan")
    ELSE IF b.m < 0 /\ ex.e < 0 THEN Special("complex")
    ELSE Special("real")

(***************************************************************************)
(* Unit conversion and interpolation helpers                               *)
(***************************************************************************)

\* conversion.C2K: degrees Celsius to Kelvin
C2K(c) == Add(c, Num(27315, -2))

\* conversion.K2C: Kelvin to degrees Celsius
K2C(T) == Sub(T, Num(27315, -2))

\* conversion.atm(): the standard atmosphere in Pa
atm == Whole(101325)

\* the largest index j of xp with xp[j] <= x, 0 if there is none
RECURSIVE SearchSorted(_, _, _)
\* a variant of the search that takes the sample below a sample point
RECURSIVE SearchSorted_strict(_, _, _)
SearchSorted_strict(x, xp, j) ==
    IF j = 0 THEN 0
    ELSE IF Less(xp[j], x) THEN j
    ELSE SearchSorted_strict(x, xp, j - 1)

SearchSorted(x, xp, j) ==
    IF j = 0 THEN 0
    ELSE IF ~Less(x, xp[j]) THEN j
    ELSE SearchSorted(x, xp, j - 1)

\* a variant of the interpolation that continues the first and the last line
\* beyond the samples
InterpAt_extrapolating(x, xp, fp, j) ==
    IF j = 0
    THEN Add(Mul(Div(Sub(fp[2], fp[1]), Sub(xp[2], xp[1])), Sub(x, xp[1])), fp[1])
    ELSE IF xp[j] = x THEN fp[j]
    ELSE IF j = Len(xp)
    THEN Add(Mul(Div(Sub(fp[j], fp[j - 1]), Sub(xp[j], xp[j - 1])),
                 Sub(x, xp[j])), fp[j])
    ELSE Add(Mul(Div(Sub(fp[j + 1], fp[j]), Sub(xp[j + 1], xp[j])),
                 Sub(x, xp[j])), fp[j])

\* a variant of the interpolation whose line between two samples has the
\* opposite slope
InterpAt_falling(x, xp, fp, j) ==
    IF j = 0 THEN fp[1]
    ELSE IF j = Len(xp) \/ xp[j] = x THEN fp[j]
    ELSE Sub(fp[j], Mul(Div(Sub(fp[j + 1], fp[j]), Sub(xp[j + 1], xp[j])),
                        Sub(x, xp[j])))

\* the line through the samples j and j + 1 at x
InterpAt(x, xp, fp, j) ==
    IF j = 0 THEN fp[1]
    ELSE IF j = Len(xp) \/ xp[j] = x THEN fp[j]
    ELSE Add(Mul(Div(Sub(fp[j + 1], fp[j]), Sub(xp[j + 1], xp[j])),
                 Sub(x, xp[j])), fp[j])

\* numpy.interp(x, xp, fp) for a scalar x: clamped at both ends, exact at a
\* sample, linear between two samples
Interp(x, xp, fp) ==
    IF IsErr(x) THEN x
    ELSE IF ~IsNum(x) THEN Special("TypeError")
    ELSE InterpAt(x, xp, fp, SearchSorted(x, xp, Len(xp)))

(***************************************************************************)
(* Sample tables of the concrete gases                                     *)
(***************************************************************************)

Air_Tp ==
    <<Num(100, 0), Num(150, 0), Num(200, 0), Num(250, 0),
      Num(300, 0), Num(350, 0), Num(400, 0), Num(450, 0),
      Num(500, 0), Num(550, 0), Num(600, 0), Num(650, 0),
      Num(700, 0), Num(750, 0), Num(800, 0), Num(850, 0),
      Num(900, 0), Num(950, 0), Num(1000, 0), Num(1100, 0),
      Num(1200, 0), Num(1300, 0), Num(1400, 0), Num(1500, 0),
      Num(1600, 0), Num(1700, 0), Num(1800, 0), Num(1900, 0),
      Num(2000, 0), Num(2100, 0), Num(2200, 0), Num(2300, 0),
      Num(2400, 0), Num(2500, 0), Num(3000, 0)>>

Air_c_p_Up ==
    <<Num(1032, 0), Num(1012, 0), Num(1007, 0), Num(1006, 0),
      Num(1007, 0), Num(1009, 0), Num(1014, 0), Num(1021, 0),
      Num(1030, 0), Num(1040, 0), Num(1051, 0), Num(1063, 0),
      Num(1075, 0), Num(1087, 0), Num(1099, 0), Num(1110, 0),
      Num(1121, 0), Num(1131, 0), Num(1141, 0), Num(1159, 0),
      Num(1175, 0), Num(1189, 0), Num(1207, 0), Num(1230, 0),
      Num(1248, 0), Num(1267, 0), Num(1286, 0), Num(1307, 0),
      Num(1337, 0), Num(1372, 0), Num(1417, 0), Num(1478, 0),
      Num(1558, 0), Num(1665, 0), Num(2726, 0)>>

Air_lambda_Up ==
    <<Num(934, -5), Num(138, -4), Num(181, -4), Num(223, -4),
      Num(263, -4), Num(300, -4), Num(338, -4), Num(373, -4),
      Num(407, -4), Num(439, -4), Num(469, -4), Num(497, -4),
      Num(524, -4), Num(549, -4), Num(573, -4), Num(596, -4),
      Num(62, -3), Num(643, -4), Num(667, -4), Num(715, -4),
      Num(763, -4), Num(82, -3), Num(91, -3), Num(100, -3),
      Num(106, -3), Num(113, -3), Num(120, -3), Num(128, -3),
      Num(137, -3), Num(147, -3), Num(160, -3), Num(175, -3),
      Num(196, -3), Num(222, -3), Num(486, -3)>>

Air_nu_Up ==
    <<Num(2, -6), Num(4426, -9), Num(759, -8), Num(1144, -8),
      Num(1589, -8), Num(2092, -8), Num(2641, -8), Num(3239, -8),
      Num(3879, -8), Num(4557, -8), Num(5269, -8), Num(6021, -8),
      Num(6810, -8), Num(7637, -8), Num(8493, -8), Num(938, -7),
      Num(1029, -7), Num(1122, -7), Num(1219, -7), Num(1418, -7),
      Num(1629, -7), Num(1851, -7), Num(2130, -7), Num(2400, -7),
      Num(2680, -7), Num(2980, -7), Num(3290, -7), Num(3620, -7),
      Num(3960, -7), Num(4310, -7), Num(4680, -7), Num(5060, -7),
      Num(5470, -7), Num(5890, -7), Num(8410, -7)>>

Air_rho_Up ==
    <<Num(35562, -4), Num(23364, -4), Num(17458, -4),
      Num(13947, -4), Num(11614, -4), Num(9950, -4),
      Num(8711, -4), Num(7740, -4), Num(6964, -4), Num(6329, -4),
      Num(5804, -4), Num(5356, -4), Num(4975, -4), Num(4643, -4),
      Num(4354, -4), Num(4097, -4), Num(3868, -4), Num(3666, -4),
      Num(3482, -4), Num(3166, -4), Num(2902, -4), Num(2679, -4),
      Num(2488, -4), Num(2322, -4), Num(2177, -4), Num(2049, -4),
      Num(1935, -4), Num(1833, -4), Num(1741, -4), Num(1658, -4),
      Num(1582, -4), Num(1513, -4), Num(1448, -4), Num(1389, -4),
      Num(1135, -4)>>

Ar_c_p_Tp ==
    <<Num(27315, -2), Num(37315, -2), Num(47315, -2),
      Num(57315, -2), Num(67315, -2), Num(77315, -2),
      Num(87315, -2), Num(97315, -2), Num(107315, -2)>>

Ar_c_p_Up ==
    <<Num(522, -3), Num(521, -3), Num(521, -3), Num(521, -3),
      Num(521, -3), Num(520, -3), Num(520, -3), Num(520, -3),
      Num(520, -3)>>

Ar_lambda_Tp ==
    <<Num(27315, -2), Num(37315, -2), Num(47315, -2),
      Num(57315, -2), Num(67315, -2), Num(77315, -2),
      Num(87315, -2)>>

Ar_lambda_Up ==
    <<Num(1651, -5), Num(2117, -5), Num(2559, -5), Num(2989, -5),
      Num(3396, -5), Num(3791, -5), Num(3943, -5)>>

Ar_mu_Up ==
    <<Num(212, -7), Num(271, -7), Num(321, -7), Num(367, -7),
      Num(410, -7), Num(4522, -8), Num(487, -7)>>

Ar_rho_Tp ==
    <<Num(29315, -2), Num(29315, -2)>>

Ar_rho_Up ==
    <<Num(16339, -4), Num(16339, -4)>>

\* Iron._c_p: Tp
Iron_c_p_Tp ==
    <<Num(300, 0), Num(600, 0), Num(900, 0), Num(1033, 0), Num(1040, 0),
      Num(1184, 0), Num(11841, -1), Num(1400, 0), Num(1673, 0),
      Num(16731, -1), Num(1809, 0), Num(18091, -1), Num(2000, 0),
      Num(3000, 0)>>

\* Iron._c_p: Up
Iron_c_p_Up ==
    <<Num(430, 0), Num(580, 0), Num(760, 0), Num(1260, 0), Num(1160, 0),
      Num(720, 0), Num(610, 0), Num(640, 0), Num(680, 0), Num(730, 0),
      Num(760, 0), Num(790, 0), Num(790, 0), Num(790, 0)>>

\* Iron._Lambda: Tp
Iron_Lambda_Tp ==
    <<Num(300, 0), Num(600, 0), Num(900, 0), Num(1184, 0), Num(1400, 0),
      Num(1673, 0), Num(16731, -1), Num(1809, 0), Num(18091, -1),
      Num(2000, 0), Num(3000, 0)>>

\* Iron._Lambda: Up
Iron_Lambda_Up ==
    <<Num(96, -1), Num(546, -1), Num(374, -1), Num(282, -1), Num(306, -1),
      Num(337, -1), Num(334, -1), Num(346, -1), Num(403, -1), Num(426, -1),
      Num(48, 0)>>

(***************************************************************************)
(* Matter instances                                                        *)
(***************************************************************************)

\* the Property members the two hierarchies declare (matter.py names the thermal
\* conductivity lambda_, genericmatter.py names it Lambda)
PropNames ==
    {"a", "beta", "c_p", "c_sound", "E", "lambda_", "Lambda", "rho", "rho_el",
     "mu", "nu", "Pr"}

Classes ==
    {"Matter", "Fluid", "Gas", "Air_interpolated", "Ar_interpolated",
     "GenericMatter"}

\* a calc rule: "unset" is a Property constructed without calc, "absent" a member
\* the class does not declare, "float" a member that was replaced by a plain
\* number, "const" a rule lambda T, p, x: c
Rule(tag) == [tag |-> tag, c |-> Zero]

ConstRule(c) == [tag |-> "const", c |-> c]

FloatSlot(c) == [tag |-> "float", c |-> c]

\* depth of nested calls at which the interpreter raises RecursionError
RecursionLimit == 6

\* What a Property without calc returns when it is evaluated: the constructors
\* test the result of the fresh E with "is None" and with np.abs(...) < 1e-20,
\* the two results they provide for.  Which of them Property yields is the same
\* for every member of an instance.
UnsetValues == {NoneVal, Zero}

\* Air_interpolated._beta
Air_beta(T) ==
    IF IsErr(T) THEN T
    ELSE IF ~IsNum(T) THEN Special("TypeError")
    ELSE IF ~Less(Num(1, -10), T) THEN Special("AssertionError")
    ELSE Div(One, T)

\* Air_interpolated._c_p
Air_c_p(T) == Interp(T, Air_Tp, Air_c_p_Up)

\* Air_interpolated._c_sound
Air_c_sound(T) ==
    Mul(Num(3313, -1), Sqrt(Add(One, Div(K2C(T), Num(27315, -2)))))

\* Air_interpolated._lambda
Air_lambda(T) == Interp(T, Air_Tp, Air_lambda_Up)

\* Air_interpolated._nu
Air_nu(T) == Interp(T, Air_Tp, Air_nu_Up)

\* Air_interpolated._rho
Air_rho(T) == Interp(T, Air_Tp, Air_rho_Up)

\* Air_interpolated._mu: the product of the methods _nu and _rho
Air_mu(T) == Mul(Air_nu(T), Air_rho(T))

\* Ar_interpolated._c_p
Ar_c_p(T) == Interp(T, Ar_c_p_Tp, Ar_c_p_Up)

\* Ar_interpolated._lambda
Ar_lambda(T) == Interp(T, Ar_lambda_Tp, Ar_lambda_Up)

\* Ar_interpolated._mu
Ar_mu(T) == Interp(T, Ar_lambda_Tp, Ar_mu_Up)

\* Ar_interpolated._rho
Ar_rho(T) == Interp(T, Ar_rho_Tp, Ar_rho_Up)

\* Ar_interpolated._nu: the quotient of the methods _mu and _rho
Ar_nu(T) == Div(Ar_mu(T), Ar_rho(T))

\* Iron._c_p
Iron_c_p(T) == Interp(T, Iron_c_p_Tp, Iron_c_p_Up)

\* Iron._Lambda
Iron_Lambda(T) == Interp(T, Iron_Lambda_Tp, Iron_Lambda_Up)

\* Iron.__init__: T_sol
Iron_T_sol == C2K(Whole(1430))

\* Iron.__init__: T_deform, with T_liq = T_sol + 50
Iron_T_deform ==
    Add(Iron_T_sol, Mul(Num(66, -2), Sub(Add(Iron_T_sol, Whole(50)), Iron_T_sol)))

\* np.exp(v): a float the model does not follow
Exp(v) == IF IsNum(v) THEN Special("real") ELSE NonNumeric(v, v)

\* Iron._mu: the condition is evaluated before the quotient
Iron_mu(T) ==
    IF ~IsNum(T) THEN NonNumeric(T, T)
    ELSE IF Less(Iron_T_deform, T)
    THEN Mul(Num(3699, -7), Exp(Div(Num(414, 2), Mul(Num(83144, -4), T))))
    ELSE Num(1, 20)

\* Iron._rho: T_Celsius = min(K2C(T), 1600), then the three branches
Iron_rho(T) ==
    IF ~IsNum(T) THEN NonNumeric(T, T)
    ELSE LET c == IF Less(Whole(1600), K2C(T)) THEN Whole(1600) ELSE K2C(T)
         IN  IF Less(Whole(1536), c)
             THEN Add(Whole(7030), Mul(Neg(Num(88, -2)), Sub(c, Whole(1536))))
             ELSE IF Less(Whole(723), c)
             THEN Add(Mul(Sub(Mul(Neg(Num(1, -4)), c), Num(2, -1)), c),
                      Num(78523, -1))
             ELSE Add(Mul(Sub(Mul(Neg(Num(1, -4)), c), Num(3, -1)), c),
                      Num(78491, -1))

\* Iron._rho_el: T_Celsius = max(K2C(T), 20), then the three branches
Iron_rho_el(T) ==
    IF ~IsNum(T) THEN NonNumeric(T, T)
    ELSE LET c == IF Less(K2C(T), Whole(20)) THEN Whole(20) ELSE K2C(T)
         IN  IF Less(c, Whole(800))
             THEN Mul(Add(Mul(Add(Mul(Num(1081, -11), c), Num(253, -8)), c),
                          Num(126, -5)), Num(1, -4))
             ELSE IF Less(T, Iron_T_sol)
             THEN Mul(Add(Mul(Add(Mul(Neg(Num(375, -11)), c), Num(12, -6)), c),
                          Num(3, -3)), Num(1, -4))
             ELSE Mul(Whole(2), Num(12, -7))

\* In the rules below sub[n] is the result of self.<n>.calc(T, p, x) and
\* dflt[n] the result of self.<n>(), each with the rule the member n holds when
\* the rule that reads it runs.

\* a variant of the rule of a that keeps the rule rho had when a was wired
Matter_a_wired(m, T, p, x, sub, dflt) ==
    Div(sub["lambda_"],
        Mul(sub["c_p"], Div(m.ref, Add(One, Mul(Sub(T, m.Tref), dflt["beta"])))))

\* Matter.a.calc
Matter_a(m, T, p, x, sub, dflt) ==
    Div(sub["lambda_"], Mul(sub["c_p"], sub["rho"]))

\* GenericMatter.a.calc
GenericMatter_a(m, T, p, x, sub, dflt) ==
    Div(sub["Lambda"], Mul(sub["c_p"], sub["rho"]))

\* a variant of the first branch of rho that carries the pressure term
Matter_rho_T_swapped(m, T, p, x, sub, dflt) ==
    Div(Div(m.ref, Add(One, Mul(Sub(T, m.Tref), dflt["beta"]))),
        Sub(One, Div(Sub(p, m.pref), dflt["E"])))

\* a variant of the rule of the first branch that expands from 0 K instead of
\* the reference temperature
Matter_rho_T_absolute(m, T, p, x, sub, dflt) ==
    Div(m.ref, Add(One, Mul(T, dflt["beta"])))

\* Matter.rho.calc, the rule of the first branch: no pressure term
Matter_rho_T(m, T, p, x, sub, dflt) ==
    Div(m.ref, Add(One, Mul(Sub(T, m.Tref), dflt["beta"])))

\* Matter.rho.calc, the rule of the second branch: with the pressure term
Matter_rho_Tp(m, T, p, x, sub, dflt) ==
    Div(Div(m.ref, Add(One, Mul(Sub(T, m.Tref), dflt["beta"]))),
        Sub(One, Div(Sub(p, m.pref), dflt["E"])))

\* a variant of the rule of mu that reads rho before nu
Fluid_mu_swapped(m, T, p, x, sub, dflt) == Mul(sub["rho"], sub["nu"])

\* Fluid.mu.calc
Fluid_mu(m, T, p, x, sub, dflt) == Mul(sub["nu"], sub["rho"])

\* a variant of the rule of nu that keeps the rule rho had when nu was wired
Fluid_nu_wired(m, T, p, x, sub, dflt) ==
    Div(sub["mu"], Matter_rho_T(m, T, p, x, sub, dflt))

\* Fluid.nu.calc
Fluid_nu(m, T, p, x, sub, dflt) == Div(sub["mu"], sub["rho"])

\* a variant of the rule that divides by the dynamic viscosity
Fluid_Pr_by_mu(m, T, p, x, sub, dflt) == Div(sub["a"], sub["mu"])

\* Fluid.Pr.calc
Fluid_Pr(m, T, p, x, sub, dflt) == Div(sub["a"], sub["nu"])

\* Iron.__init__, nu.calc: the quotient of the members mu and rho
Iron_nu(m, T, p, x, sub, dflt) == Div(sub["mu"], sub["rho"])

\* The rules of the gases that query the external property source (class
\* _Generic)

\* a variant of the clipping that has no upper bound
Clip_lower_only(v, lo, hi) ==
    IF ~IsNum(v) THEN NonNumeric(v, v)
    ELSE IF Less(v, lo) THEN lo
    ELSE v

\* np.clip(v, lo, hi) for a scalar v
Clip(v, lo, hi) ==
    IF ~IsNum(v) THEN NonNumeric(v, v)
    ELSE IF Less(v, lo) THEN lo
    ELSE IF Less(hi, v) THEN hi
    ELSE v

\* the queries the method _<name> of the gas sends for (T, p, x), in the order
\* it sends them: one with the clipped T, for _nu those of _mu and of _rho
Generic_queries(name, T, p) ==
    IF name = "nu"
    THEN <<[out |-> "mu", T |-> Clip(T, Num(27316, -2), Whole(600)), p |-> p],
           [out |-> "rho", T |-> Clip(T, Num(27316, -2), Whole(600)), p |-> p]>>
    ELSE <<[out |-> name, T |-> Clip(T, Num(27316, -2), Whole(600)), p |-> p]>>

\* cp.CoolProp.PropsSI(out, 'T', T, 'P', p, identifier): the library is outside
\* the repository; the model answers a query with a number that differs
\* between the outputs, the fluids, the temperatures and the pressures
PropsSI(q, id) ==
    IF ~(IsNum(q.T) /\ IsNum(q.p)) THEN NonNumeric(q.T, q.p)
    ELSE Add(Mul(Whole((IF id = "Ar" THEN 10 ELSE 0)
                       + (CASE q.out = "c_p" -> 1 [] q.out = "rho" -> 2
                            [] q.out = "lambda_" -> 3 [] OTHER -> 5)), q.T),
             Add(One, Mul(q.p, Num(1, -6))))

\* _Generic._c_p, _rho, _lambda, _mu: the answer to the one query; _nu: the
\* quotient of the results of _mu and _rho
Generic_calc(name, T, p, id) ==
    IF name = "nu"
    THEN Div(PropsSI(Generic_queries(name, T, p)[1], id),
             PropsSI(Generic_queries(name, T, p)[2], id))
    ELSE PropsSI(Generic_queries(name, T, p)[1], id)

\* the rule of tag r.tag applied to (T, p, x)
RuleValue(m, r, T, p, x, sub, dflt) ==
    CASE r.tag = "absent" -> Special("AttributeError")
      [] r.tag = "float" -> Special("AttributeError")
      [] r.tag = "unset" -> m.unset
      [] r.tag = "const" -> r.c
      [] r.tag = "c_sound_default" -> One
      [] r.tag = "a_default" -> Matter_a(m, T, p, x, sub, dflt)
      [] r.tag = "a_default_gm" -> GenericMatter_a(m, T, p, x, sub, dflt)
      [] r.tag = "rho_T" -> Matter_rho_T(m, T, p, x, sub, dflt)
      [] r.tag = "rho_Tp" -> Matter_rho_Tp(m, T, p, x, sub, dflt)
      [] r.tag = "mu_default" -> Fluid_mu(m, T, p, x, sub, dflt)
      [] r.tag = "nu_default" -> Fluid_nu(m, T, p, x, sub, dflt)
      [] r.tag = "Pr_default" -> Fluid_Pr(m, T, p, x, sub, dflt)
      [] r.tag = "Air_beta" -> Air_beta(T)
      [] r.tag = "Air_c_p" -> Air_c_p(T)
      [] r.tag = "Air_c_sound" -> Air_c_sound(T)
      [] r.tag = "Air_lambda" -> Air_lambda(T)
      [] r.tag = "Air_mu" -> Air_mu(T)
      [] r.tag = "Air_nu" -> Air_nu(T)
      [] r.tag = "Air_rho" -> Air_rho(T)
      [] r.tag = "Ar_c_p" -> Ar_c_p(T)
      [] r.tag = "Ar_lambda" -> Ar_lambda(T)
      [] r.tag = "Ar_mu" -> Ar_mu(T)
      [] r.tag = "Ar_nu" -> Ar_nu(T)
      [] r.tag = "Ar_rho" -> Ar_rho(T)
      [] r.tag = "Iron_c_p" -> Iron_c_p(T)
      [] r.tag = "Iron_Lambda" -> Iron_Lambda(T)
      [] r.tag = "Iron_mu" -> Iron_mu(T)
      [] r.tag = "Iron_nu" -> Iron_nu(m, T, p, x, sub, dflt)
      [] r.tag = "Iron_rho" -> Iron_rho(T)
      [] r.tag = "Iron_rho_el" -> Iron_rho_el(T)

\* m.<name>.calc(T, p, x): the rule the member holds now, at nesting depth
\* depth; a rule reads its siblings one level deeper.  A member that was
\* replaced by a number has no calc, and is not callable either.
RECURSIVE CalcOf(_, _, _, _, _, _)
CalcOf(m, name, T, p, x, depth) ==
    IF depth > RecursionLimit THEN Special("RecursionError")
    ELSE RuleValue(m, m.calc[name], T, p, x,
             [n \in PropNames |-> CalcOf(m, n, T, p, x, depth + 1)],
             [n \in PropNames |->
                 IF m.calc[n].tag = "float" THEN Special("TypeError")
                 ELSE CalcOf(m, n, NoneVal, NoneVal, NoneVal, depth + 1)])

\* m.<name>(T, p, x): Property.__call__ runs the member's rule
CallOf(m, name, T, p, x, depth) ==
    IF m.calc[name].tag = "float" THEN Special("TypeError")
    ELSE CalcOf(m, name, T, p, x, depth)

(***************************************************************************)
(* Constructors                                                            *)
(***************************************************************************)

\* a variant of the test of self.E() without the test for None
Matter_rho_select_noNone(e) ==
    IF IsNum(e) /\ Less(AbsNum(e), Num(1, -20))
    THEN Rule("rho_T")
    ELSE Rule("rho_Tp")

\* Matter.__init__, the test of self.E(): the rule rho gets
Matter_rho_select(e) ==
    IF e.k = "None" \/ (IsNum(e) /\ Less(AbsNum(e), Num(1, -20)))
    THEN Rule("rho_T")
    ELSE Rule("rho_Tp")

\* Matter.__init__: the members and the rules they are created with
Matter_members(cls, u) ==
    [cls |-> cls, unset |-> u, ref |-> One,
     Tref |-> C2K(Whole(20)), pref |-> atm,
     T_ref |-> Special("default"), wired |-> <<>>,
     calc |-> [n \in PropNames |->
         CASE n = "a" -> Rule("a_default")
           [] n = "c_sound" -> Rule("c_sound_default")
           [] n \in {"beta", "c_p", "E", "lambda_", "rho", "rho_el"}
                -> Rule("unset")
           [] OTHER -> Rule("absent")]]

\* Matter.__init__: the rule of rho, chosen from the value e of self.E()
Matter_rho_wire(m0, e) ==
    [exc |-> IF IsErr(e) THEN e ELSE NoneVal,
     obj |-> [m0 EXCEPT !.calc["rho"] = Matter_rho_select(e)]]

\* Matter.__init__
Matter_init(cls, u) ==
    Matter_rho_wire(Matter_members(cls, u),
        CallOf(Matter_members(cls, u), "E", NoneVal, NoneVal, NoneVal, 1))

\* GenericMatter.__init__: the members and the rules they are created with; the
\* conductivity is the member Lambda
GenericMatter_members(cls, u) ==
    [cls |-> cls, unset |-> u, ref |-> One,
     Tref |-> C2K(Whole(20)), pref |-> Num(101325, 0),
     T_ref |-> Special("default"), wired |-> <<>>,
     calc |-> [n \in PropNames |->
         CASE n = "a" -> Rule("a_default_gm")
           [] n \in {"beta", "c_sound", "c_p", "E", "Lambda", "rho", "rho_el"}
                -> Rule("unset")
           [] OTHER -> Rule("absent")]]

\* GenericMatter.__init__, the test of self.E(): np.abs is applied to the value
\* without a test for None
GenericMatter_rho_select(e) ==
    IF IsNum(e) /\ Less(AbsNum(e), Num(1, -20))
    THEN Rule("rho_T")
    ELSE Rule("rho_Tp")

\* GenericMatter.__init__: the rule of rho, chosen from the value e of self.E()
GenericMatter_rho_wire(m0, e) ==
    [exc |-> IF IsErr(e) THEN e
             ELSE IF e.k = "None" THEN Special("TypeError")
             ELSE NoneVal,
     obj |-> [m0 EXCEPT !.calc["rho"] = GenericMatter_rho_select(e)]]

\* GenericMatter.__init__
GenericMatter_init(cls, u) ==
    GenericMatter_rho_wire(GenericMatter_members(cls, u),
        CallOf(GenericMatter_members(cls, u), "E", NoneVal, NoneVal, NoneVal, 1))

\* the classes whose constructors run for an instance of cls, root first
Bases(cls) ==
    CASE cls = "Matter" -> {"Matter"}
      [] cls = "Fluid" -> {"Matter", "Fluid"}
      [] cls = "Gas" -> {"Matter", "Fluid", "Gas"}
      [] cls = "Air_interpolated" -> {"Matter", "Fluid", "Gas", "Air_interpolated"}
      [] cls = "Ar_interpolated" -> {"Matter", "Fluid", "Gas", "Ar_interpolated"}
      [] cls = "GenericMatter" -> {"GenericMatter"}

\* Fluid.__init__ after super().__init__() returned r: mu, nu and Pr with their
\* default rules
Fluid_init(r) ==
    [r EXCEPT !.obj.calc["mu"] = Rule("mu_default"),
              !.obj.calc["nu"] = Rule("nu_default"),
              !.obj.calc["Pr"] = Rule("Pr_default")]

\* Gas.__init__ after super().__init__() returned r: the reference temperature
Gas_init(r) == [r EXCEPT !.obj.T_ref = C2K(Whole(15))]

\* Air_interpolated.__init__ after super().__init__() returned r: the member E
\* replaced by the number 2.2e9, the rules replaced by the methods of the class
Air_interpolated_init(r) ==
    [r EXCEPT !.obj.T_ref = C2K(Whole(15)),
              !.obj.calc["E"] = FloatSlot(Num(22, 8)),
              !.obj.calc["beta"] = Rule("Air_beta"),
              !.obj.calc["c_p"] = Rule("Air_c_p"),
              !.obj.calc["c_sound"] = Rule("Air_c_sound"),
              !.obj.calc["lambda_"] = Rule("Air_lambda"),
              !.obj.calc["mu"] = Rule("Air_mu"),
              !.obj.calc["nu"] = Rule("Air_nu"),
              !.obj.calc["rho"] = Rule("Air_rho")]

\* Ar_interpolated.__init__ after super().__init__() returned r
Ar_interpolated_init(r) ==
    [r EXCEPT !.obj.T_ref = C2K(Whole(15)),
              !.obj.calc["rho"] = Rule("Ar_rho"),
              !.obj.calc["nu"] = Rule("Ar_nu"),
              !.obj.calc["mu"] = Rule("Ar_mu"),
              !.obj.calc["c_p"] = Rule("Ar_c_p"),
              !.obj.calc["lambda_"] = Rule("Ar_lambda")]

\* the constructor of class c, run if cls derives from c
InitOf(c, cls, r) ==
    IF c \notin Bases(cls) THEN r
    ELSE CASE c = "Fluid" -> Fluid_init(r)
           [] c = "Gas" -> Gas_init(r)
           [] c = "Air_interpolated" -> Air_interpolated_init(r)
           [] c = "Ar_interpolated" -> Ar_interpolated_init(r)

\* r with the rules the constructors assigned recorded in wired
Wired(r) == [r EXCEPT !.obj.wired = r.obj.calc]

\* genericmatter.Fluid.__init__ and Liquid.__init__ after super().__init__()
\* returned r: nu and mu without rule, the reference temperature
GenericLiquid_init(r) ==
    [r EXCEPT !.obj.calc["nu"] = Rule("unset"),
              !.obj.calc["mu"] = Rule("unset"),
              !.obj.T_ref = C2K(Whole(15))]

\* Iron.__init__ after super().__init__() returned r
Iron_init(r) ==
    [r EXCEPT !.obj.T_ref = C2K(Whole(20)),
              !.obj.calc["E"] = ConstRule(NoneVal),
              !.obj.calc["beta"] = ConstRule(Num(231, -7)),
              !.obj.calc["c_p"] = Rule("Iron_c_p"),
              !.obj.calc["Lambda"] = Rule("Iron_Lambda"),
              !.obj.calc["mu"] = Rule("Iron_mu"),
              !.obj.calc["nu"] = Rule("Iron_nu"),
              !.obj.calc["rho"] = Rule("Iron_rho"),
              !.obj.calc["rho_el"] = Rule("Iron_rho_el")]

\* the constructor chain of the classes built on GenericMatter
NewGeneric(cls, r) ==
    IF cls = "Iron" THEN Iron_init(GenericLiquid_init(r)) ELSE r

\* cls(): the constructor chain of the class; wired keeps the rules the
\* constructors assigned
New(cls, u) ==
    IF cls \in {"GenericMatter", "Iron"}
    THEN Wired(NewGeneric(cls, GenericMatter_init(cls, u)))
    ELSE Wired(InitOf("Ar_interpolated", cls,
               InitOf("Air_interpolated", cls,
               InitOf("Gas", cls,
               InitOf("Fluid", cls, Matter_init(cls, u))))))

(***************************************************************************)
(* Operations on the instance                                              *)
(***************************************************************************)

\* at most this many members hold a rule other than the constructor's
MaxOverrides == 2

\* the states (T, p, x) a property is evaluated at
Ts == {Whole(325), Whole(4000)}

ps == {atm, Add(atm, Num(1, 5))}

xs == {Zero, One}

\* the members a caller re-points, and the constants of the rules it assigns
OverrideNames == {"rho", "mu", "nu", "c_p", "lambda_", "Lambda", "beta", "E"}

ConstsFor(name) ==
    IF name = "E" THEN {Zero, Num(22, 8)}
    ELSE IF name \in {"rho", "mu"} THEN {Whole(2), Whole(5)}
    ELSE {Whole(2)}

NoInst == [cls |-> "none"]

Idle == [op |-> "idle"]

Call(op, prop, T, p, x, ret) ==
    [op |-> op, prop |-> prop, T |-> T, p |-> p, x |-> x, ret |-> ret]

\* the members whose rule is no longer the one its constructor assigned
Overridden(m) == {n \in PropNames : m.calc[n] # m.wired[n]}

MayOverrideIn(name, done) == name \in done \/ Cardinality(done) < MaxOverrides

MayOverride(m, name) == MayOverrideIn(name, Overridden(m))

\* m = cls()
Construct(cls, u) ==
    /\ inst.cls = "none"
    /\ last.op = "idle"
    /\ LET r == New(cls, u)
       IN  /\ inst' = IF IsErr(r.exc) THEN NoInst ELSE r.obj
           /\ last' = Call("construct", cls, NoneVal, NoneVal, NoneVal, r.exc)

\* a variant of the assignment that chooses the rule of rho again from the new E
SetCalcObj_rewire(m, name, c) ==
    IF name = "E"
    THEN [m EXCEPT !.calc["E"] = ConstRule(c), !.calc["rho"] = Matter_rho_select(c)]
    ELSE [m EXCEPT !.calc[name] = ConstRule(c)]

\* a variant of the assignment that reads rho when mu is assigned: it fixes nu
\* to the quotient of the new mu and the constant rho holds at that moment
SetCalcObj_snapshot(m, name, c) ==
    IF name = "mu" /\ m.calc["nu"].tag \notin {"absent", "float"}
    THEN [m EXCEPT !.calc["mu"] = ConstRule(c),
                   !.calc["nu"] =
                       ConstRule(Div(c, IF m.calc["rho"].tag = "const"
                                        THEN m.calc["rho"].c ELSE m.ref))]
    ELSE [m EXCEPT !.calc[name] = ConstRule(c)]

\* the instance after m.<name>.calc = lambda T, p, x: c
SetCalcObj(m, name, c) == [m EXCEPT !.calc[name] = ConstRule(c)]

\* m.<name>.calc = lambda T, p, x: c
SetCalc(name, c) ==
    /\ inst.cls # "none"
    /\ last.op = "idle"
    /\ MayOverride(inst, name)
    /\ IF inst.calc[name].tag \in {"absent", "float"}
       THEN /\ inst' = inst
            /\ last' = Call("set_calc", name, NoneVal, NoneVal, NoneVal,
                            Special("AttributeError"))
       ELSE /\ inst' = SetCalcObj(inst, name, c)
            /\ last' = Call("set_calc", name, NoneVal, NoneVal, NoneVal, NoneVal)

\* the instance after m.<name> = c
SetAttrObj(m, name, c) == [m EXCEPT !.calc[name] = FloatSlot(c)]

\* m.E = c: the member is replaced by a plain number
SetAttr(name, c) ==
    /\ inst.cls # "none"
    /\ last.op = "idle"
    /\ MayOverride(inst, name)
    /\ inst' = SetAttrObj(inst, name, c)
    /\ last' = Call("set_attr", name, NoneVal, NoneVal, NoneVal, NoneVal)

\* a variant of the evaluation that keeps a numeric result as the reference
\* value of the instance
Evaluate_storing(name, T, p, x) ==
    /\ inst.cls # "none"
    /\ last.op = "idle"
    /\ LET ret == CallOf(inst, name, T, p, x, 1)
       IN  /\ inst' = IF IsNum(ret) THEN [inst EXCEPT !.ref = ret] ELSE inst
           /\ last' = Call("eval", name, T, p, x, ret)

\* m.<name>(T, p, x)
Evaluate(name, T, p, x) ==
    /\ inst.cls # "none"
    /\ last.op = "idle"
    /\ inst' = inst
    /\ last' = Call("eval", name, T, p, x, CallOf(inst, name, T, p, x, 1))

\* the caller takes the result
Return ==
    /\ last.op # "idle"
    /\ last' = Idle
    /\ inst' = inst

(***************************************************************************)
(* Construction step by step: the constructor calls along a class hierarchy*)
(***************************************************************************)

\* a variant of the class statements with the bases of Iron exchanged
DirectBases_exchanged(c) ==
    CASE c = "Iron" -> <<"gm.Liquid", "gm.Ferrous">>
      [] c = "AISI304" -> <<"gm.Ferrous">>
      [] c = "gm.Ferrous" -> <<"gm.Metal">>
      [] c = "gm.Metal" -> <<"gm.Solid">>
      [] c = "gm.Liquid" -> <<"gm.Fluid">>
      [] c \in {"gm.Solid", "gm.Fluid"} -> <<"GenericMatter">>
      [] c = "Ar" -> <<"_Generic">>
      [] c \in {"Air_interpolated", "Ar_interpolated", "_Generic"} -> <<"Gas">>
      [] c = "Gas" -> <<"Fluid">>
      [] c = "Fluid" -> <<"Matter">>
      [] c \in {"Matter", "GenericMatter"} -> <<"Property">>
      [] OTHER -> <<>>

\* the bases a class statement names, in the order it names them; gm.<name>
\* is the class <name> of genericmatter.py, the others are those of matter.py
\* and gases.py
DirectBases(c) ==
    CASE c = "Iron" -> <<"gm.Ferrous", "gm.Liquid">>
      [] c = "AISI304" -> <<"gm.Ferrous">>
      [] c = "gm.Ferrous" -> <<"gm.Metal">>
      [] c = "gm.Metal" -> <<"gm.Solid">>
      [] c = "gm.Liquid" -> <<"gm.Fluid">>
      [] c \in {"gm.Solid", "gm.Fluid"} -> <<"GenericMatter">>
      [] c = "Ar" -> <<"_Generic">>
      [] c \in {"Air_interpolated", "Ar_interpolated", "_Generic"} -> <<"Gas">>
      [] c = "Gas" -> <<"Fluid">>
      [] c = "Fluid" -> <<"Matter">>
      [] c \in {"Matter", "GenericMatter"} -> <<"Property">>
      [] OTHER -> <<>>

RECURSIVE Merge(_)

\* the merge of the method resolution order: the head of the first list that
\* is in the tail of no list comes next and is removed from every list
Merge(seqs) ==
    LET live == SelectSeq(seqs, LAMBDA q : q # <<>>)
        InTail(c) == \E i \in 1..Len(live) :
                         \E j \in 2..Len(live[i]) : live[i][j] = c
        good == {i \in 1..Len(live) : ~InTail(live[i][1])}
        h == live[CHOOSE i \in good : \A j \in good : i <= j][1]
    IN  IF live = <<>> THEN <<>>
        ELSE IF good = {} THEN <<"TypeError">>
        ELSE <<h>> \o Merge([i \in 1..Len(live) |->
                                IF live[i][1] = h THEN Tail(live[i])
                                ELSE live[i]])

RECURSIVE Linearize(_)

\* the method resolution order of class c: the order in which super() hands
\* the constructor call on
Linearize(c) ==
    <<c>> \o Merge([i \in 1..(Len(DirectBases(c)) + 1) |->
                      IF i <= Len(DirectBases(c))
                      THEN Linearize(DirectBases(c)[i])
                      ELSE DirectBases(c)])

\* Property.__init__: the comment it was called with becomes the comment of
\* the instance
Property_init(comment) == comment

\* the statements of c.__init__ that follow its super().__init__(...), for an
\* instance of cls: r is the instance as the super call left it.  Solid,
\* Metal, Ferrous and the gases derived from _Generic assign no rule; a rule
\* Generic_<name> is the method Generic_calc(<name>, T, p, identifier).
Body(c, cls, u, r) ==
    CASE c = "Matter" -> Matter_init(cls, u)
      [] c = "GenericMatter" -> GenericMatter_init(cls, u)
      [] c = "Fluid" -> Fluid_init(r)
      [] c = "Gas" -> Gas_init(r)
      [] c = "Air_interpolated" -> Air_interpolated_init(r)
      [] c = "Ar_interpolated" -> Ar_interpolated_init(r)
      [] c = "_Generic" ->
            [r EXCEPT !.obj.T_ref = C2K(Whole(20)),
                      !.obj.calc["c_p"] = Rule("Generic_c_p"),
                      !.obj.calc["lambda_"] = Rule("Generic_lambda"),
                      !.obj.calc["mu"] = Rule("Generic_mu"),
                      !.obj.calc["nu"] = Rule("Generic_nu"),
                      !.obj.calc["rho"] = Rule("Generic_rho")]
      [] c = "gm.Fluid" ->
            [r EXCEPT !.obj.calc["nu"] = Rule("unset"),
                      !.obj.calc["mu"] = Rule("unset")]
      [] c = "gm.Liquid" -> [r EXCEPT !.obj.T_ref = C2K(Whole(15))]
      [] c = "AISI304" ->
            [r EXCEPT !.obj.T_ref = C2K(Whole(20)),
                      !.obj.calc["E"] = ConstRule(Num(193, 9)),
                      !.obj.calc["beta"] = ConstRule(Num(17, -6)),
                      !.obj.calc["c_p"] = ConstRule(Whole(480)),
                      !.obj.calc["Lambda"] = ConstRule(Whole(16)),
                      !.obj.calc["rho"] = ConstRule(Whole(8030))]
      [] c = "Iron" -> Iron_init(r)
      [] OTHER -> r

\* the comment of the instance after the statements of c.__init__ that follow
\* its super call: own is the comment c.__init__ was called with, cur the
\* comment the super call left
BodyComment(c, own, cur) ==
    CASE c = "Property" -> Property_init(own)
      [] c = "Air_interpolated" ->
            Special("Composition: N2: 0.78, O2: 21, Ar+CO2: 0.01")
      [] c = "AISI304" ->
            IF own = NoneVal THEN Special("1.4301, AISI 304, X5CrNi1810")
            ELSE cur
      [] OTHER -> cur

\* m = cls(comment=comment): the call enters the constructors of the hierarchy
\* in the method resolution order
BeginInit(cls, u, comment) ==
    /\ inst.cls = "none"
    /\ last.op = "idle"
    /\ inst' = inst
    /\ last' = [op |-> "init", cls |-> cls, unset |-> u, arg |-> comment,
                enter |-> Linearize(cls), passed |-> comment,
                frames |-> <<>>, ran |-> <<>>,
                comment |-> Special("AttributeError"), slots |-> {},
                exc |-> NoneVal]

\* the next constructor is entered with the comment passed to it and calls
\* super().__init__: AISI304 passes comment=None, every other class its own
\* argument
EnterInit ==
    /\ last.op = "init"
    /\ last.enter # <<>>
    /\ inst' = inst
    /\ last' = [last EXCEPT
                   !.enter = Tail(@),
                   !.frames = Append(@, [c |-> Head(last.enter),
                                         comment |-> last.passed]),
                   !.passed = IF Head(last.enter) = "AISI304" THEN NoneVal
                              ELSE @]

\* the innermost super call has returned: the constructor that made it runs
\* its remaining statements and returns.  An exception ends the construction;
\* Solid.__init__ adds the strength members.
RunBody ==
    /\ last.op = "init"
    /\ last.enter = <<>>
    /\ last.frames # <<>>
    /\ \E f \in {last.frames[Len(last.frames)]} :
       \E r \in {Body(f.c, last.cls, last.unset,
                      [exc |-> NoneVal, obj |-> inst])} :
          IF IsErr(r.exc)
          THEN /\ inst' = NoInst
               /\ last' = [last EXCEPT !.frames = <<>>, !.exc = r.exc]
          ELSE /\ inst' = IF Len(last.frames) = 1 THEN Wired(r).obj ELSE r.obj
               /\ last' = [last EXCEPT
                              !.frames = SubSeq(@, 1, Len(@) - 1),
                              !.ran = Append(@, f.c),
                              !.comment = BodyComment(f.c, f.comment, @),
                              !.slots = IF f.c = "gm.Solid"
                                        THEN @ \cup {"R_p02", "R_m", "R_compr"}
                                        ELSE @]

(***************************************************************************)
(* Two instances of one substance class                                    *)
(***************************************************************************)

\* one = cls(); two = cls(): each constructor call builds the Property members
\* of its own instance
ConstructPair(cls, u) ==
    /\ inst.cls = "none"
    /\ last.op = "idle"
    /\ \E r \in {New(cls, u)} :
          /\ inst' = IF IsErr(r.exc) THEN NoInst
                     ELSE [cls |-> "pair", one |-> r.obj, two |-> r.obj]
          /\ last' = Call("construct", cls, NoneVal, NoneVal, NoneVal, r.exc)

\* a variant in which the members are shared: the assignment reaches both
\* instances
AssignOne_shared(name, c) ==
    /\ inst.cls = "pair"
    /\ last.op = "idle"
    /\ MayOverride(inst.one, name)
    /\ inst.one.calc[name].tag \notin {"absent", "float"}
    /\ inst' = [inst EXCEPT !.one = SetCalcObj(@, name, c),
                            !.two = SetCalcObj(@, name, c)]
    /\ last' = Call("set_calc", name, NoneVal, NoneVal, NoneVal, NoneVal)

\* one.<name>.calc = lambda T, p, x: c
AssignOne(name, c) ==
    /\ inst.cls = "pair"
    /\ last.op = "idle"
    /\ MayOverride(inst.one, name)
    /\ inst.one.calc[name].tag \notin {"absent", "float"}
    /\ inst' = [inst EXCEPT !.one = SetCalcObj(@, name, c)]
    /\ last' = Call("set_calc", name, NoneVal, NoneVal, NoneVal, NoneVal)

\* one.rho.ref = v
SetRefOne(v) ==
    /\ inst.cls = "pair"
    /\ last.op = "idle"
    /\ inst.one.ref # v
    /\ inst' = [inst EXCEPT !.one.ref = v]
    /\ last' = Call("set_ref", "rho", NoneVal, NoneVal, NoneVal, NoneVal)

\* two.<name>(T, p, x)
EvaluateTwo(name, T, p, x) ==
    /\ inst.cls = "pair"
    /\ last.op = "idle"
    /\ inst' = inst
    /\ last' = Call("eval", name, T, p, x, CallOf(inst.two, name, T, p, x, 1))

(***************************************************************************)
(* Threads that evaluate properties of one instance                        *)
(***************************************************************************)

\* the number of threads that read the instance
NThreads == 2

\* thread t calls m.<name>(T, p, x); the other threads are where they were
BeginRead(t, name, T, p, x) ==
    /\ inst.cls # "none"
    /\ last.op \in {"construct", "reads"}
    /\ inst' = inst
    /\ last' = [op |-> "reads",
                th |-> [i \in 1..NThreads |->
                          IF i = t
                          THEN Call("called", name, T, p, x, NoneVal)
                          ELSE IF last.op = "reads" THEN last.th[i]
                          ELSE Call("idle", "", NoneVal, NoneVal, NoneVal,
                                    NoneVal)]]

\* a variant in which the rule keeps a numeric result as the reference value
EndRead_caching(t) ==
    /\ last.op = "reads"
    /\ last.th[t].op = "called"
    /\ LET c == last.th[t]
           ret == CallOf(inst, c.prop, c.T, c.p, c.x, 1)
       IN  /\ inst' = IF IsNum(ret) THEN [inst EXCEPT !.ref = ret] ELSE inst
           /\ last' = [last EXCEPT !.th[t].op = "done", !.th[t].ret = ret]

\* the call of thread t runs the rule on the instance as it is now and returns
EndRead(t) ==
    /\ last.op = "reads"
    /\ last.th[t].op = "called"
    /\ inst' = inst
    /\ last' = [last EXCEPT
                  !.th[t].op = "done",
                  !.th[t].ret = CallOf(inst, last.th[t].prop, last.th[t].T,
                                       last.th[t].p, last.th[t].x, 1)]

(***************************************************************************)
(* Evaluation of the concrete substances outside their operational ranges  *)
(***************************************************************************)

\* the substances with tables or correlations of their own
ConcreteClasses == {"Air_interpolated", "Ar_interpolated", "Iron"}

\* temperatures below, at and above the tables, T <= 0 included
EnvelopeTs == {Neg(One), Zero, Whole(325), Whole(2000), Whole(4000)}

\* pressures from vacuum to far above the reference pressure
EnvelopePs == {Zero, atm, Num(1, 9)}

(***************************************************************************)
(* The gases that query the external property source (class _Generic)      *)
(***************************************************************************)

\* a call of the method _<name> of the gas id with (T, p, x)
GenericCall(id, name, T, p, x) ==
    /\ last.op = "idle"
    /\ inst' = inst
    /\ last' = [op |-> "generic", id |-> id, prop |-> name, T |-> T, p |-> p,
                x |-> x, sent |-> Generic_queries(name, T, p),
                ret |-> Generic_calc(name, T, p, id)]

(***************************************************************************)
(* Table lookups of the concrete substances                                *)
(***************************************************************************)

\* the methods that look a value up in a table and are assigned to a calc
Tables ==
    {"Air_c_p", "Air_lambda", "Air_nu", "Air_rho", "Ar_c_p", "Ar_lambda",
     "Ar_mu", "Ar_rho", "Iron_c_p", "Iron_Lambda"}

\* the sample temperatures Tp of the method
TableTp(t) ==
    CASE t \in {"Air_c_p", "Air_lambda", "Air_nu", "Air_rho"} -> Air_Tp
      [] t = "Ar_c_p" -> Ar_c_p_Tp
      [] t \in {"Ar_lambda", "Ar_mu"} -> Ar_lambda_Tp
      [] t = "Ar_rho" -> Ar_rho_Tp
      [] t = "Iron_c_p" -> Iron_c_p_Tp
      [] t = "Iron_Lambda" -> Iron_Lambda_Tp

\* the sample values Up of the method
TableUp(t) ==
    CASE t = "Air_c_p" -> Air_c_p_Up
      [] t = "Air_lambda" -> Air_lambda_Up
      [] t = "Air_nu" -> Air_nu_Up
      [] t = "Air_rho" -> Air_rho_Up
      [] t = "Ar_c_p" -> Ar_c_p_Up
      [] t = "Ar_lambda" -> Ar_lambda_Up
      [] t = "Ar_mu" -> Ar_mu_Up
      [] t = "Ar_rho" -> Ar_rho_Up
      [] t = "Iron_c_p" -> Iron_c_p_Up
      [] t = "Iron_Lambda" -> Iron_Lambda_Up

\* the method called with the temperature T
TableMethod(t, T) ==
    CASE t = "Air_c_p" -> Air_c_p(T)
      [] t = "Air_lambda" -> Air_lambda(T)
      [] t = "Air_nu" -> Air_nu(T)
      [] t = "Air_rho" -> Air_rho(T)
      [] t = "Ar_c_p" -> Ar_c_p(T)
      [] t = "Ar_lambda" -> Ar_lambda(T)
      [] t = "Ar_mu" -> Ar_mu(T)
      [] t = "Ar_rho" -> Ar_rho(T)
      [] t = "Iron_c_p" -> Iron_c_p(T)
      [] t = "Iron_Lambda" -> Iron_Lambda(T)

\* temperatures below, between and above the samples
OffSampleTs ==
    {Neg(One), Zero, Whole(99), Num(27314, -2), Num(29314, -2), Whole(325),
     Num(11845, -1), Num(29316, -2), Whole(3001), Whole(4000)}

\* the temperatures a method is called with: its samples and the others
LookupTs(t) == {TableTp(t)[i] : i \in 1..Len(TableTp(t))} \cup OffSampleTs

\* a call of a table method with the temperature T
Lookup(t, T) ==
    /\ last.op = "idle"
    /\ last' = [op |-> "lookup", table |-> t, T |-> T, ret |-> TableMethod(t, T)]
    /\ inst' = inst

(***************************************************************************)
(* Axial velocity in a pipe                                                *)
(***************************************************************************)

\* a variant of the test that takes Re = 2300 as laminar
IsLaminar_le(Re) == ~Less(Whole(2300), Re)

\* v_axial, the test of the Reynolds number
IsLaminar(Re) == Less(Re, Whole(2300))

\* a variant of the laminar branch that is linear in r
v_axial_laminar_onesided(v_mean, d_pipe, r) ==
    Mul(Mul(Whole(2), v_mean), Sub(One, Mul(Whole(2), Div(r, d_pipe))))

\* a variant of the laminar branch with the factor 2 in place of 4
v_axial_laminar_flat(v_mean, d_pipe, r) ==
    Mul(Mul(Whole(2), v_mean),
        Sub(One, Mul(Whole(2), Power(Div(r, d_pipe), Whole(2), FALSE))))

\* v_axial, the laminar branch
v_axial_laminar(v_mean, d_pipe, r) ==
    Mul(Mul(Whole(2), v_mean),
        Sub(One, Mul(Whole(4), Power(Div(r, d_pipe), Whole(2), FALSE))))

\* a variant of the exponent that takes 1 / n whenever n is given
reciprocal_of_n_prefers_n(lambda_, n) ==
    IF lambda_.k = "None" \/ n.k # "None"
    THEN Div(One, IF n.k = "None" THEN Whole(6) ELSE n)
    ELSE Sqrt(lambda_)

\* v_axial, the turbulent branch: the exponent
reciprocal_of_n(lambda_, n) ==
    IF lambda_.k = "None"
    THEN Div(One, IF n.k = "None" THEN Whole(6) ELSE n)
    ELSE Sqrt(lambda_)

\* a variant of the turbulent branch whose v_max is not halved
v_axial_turbulent_unhalved(v_mean, d_pipe, r, m, np) ==
    Mul(Mul(v_mean, Mul(Add(m, Whole(2)), Add(m, One))),
        Power(Sub(One, Div(Mul(Whole(2), r), d_pipe)), m, np))

\* v_axial, the turbulent branch with the exponent m
v_axial_turbulent(v_mean, d_pipe, r, m, np) ==
    Mul(Div(Mul(v_mean, Mul(Add(m, Whole(2)), Add(m, One))), Whole(2)),
        Power(Sub(One, Div(Mul(Whole(2), r), d_pipe)), m, np))

\* v_axial after Re was computed: the regime and the result
v_axial_branch(v_mean, d_pipe, r, lambda_, n, Re) ==
    IF IsErr(Re) THEN [Re |-> Re, regime |-> "none", ret |-> Re]
    ELSE IF IsLaminar(Re)
    THEN [Re |-> Re, regime |-> "laminar",
          ret |-> v_axial_laminar(v_mean, d_pipe, r)]
    ELSE [Re |-> Re, regime |-> "turbulent",
          ret |-> v_axial_turbulent(v_mean, d_pipe, r,
                      reciprocal_of_n(lambda_, n), lambda_.k # "None")]

\* v_axial(v_mean, d_pipe, r, nu, lambda_, n)
v_axial(v_mean, d_pipe, r, nu, lambda_, n) ==
    v_axial_branch(v_mean, d_pipe, r, lambda_, n, Div(Mul(v_mean, d_pipe), nu))

\* the arguments of the calls
v_means == {Neg(One), One, Whole(2299), Whole(2300), Whole(2301)}

d_pipes == {Zero, One, Whole(2)}

rs == {Neg(One), Neg(Num(5, -1)), Zero, Num(5, -1), One}

nus == {Zero, One, Num(1, -6)}

lambdas == {NoneVal, Num(4, -2), Neg(One)}

ns == {NoneVal, Zero, One, Whole(6)}

PipeCall(v_mean, d_pipe, r, nu, lambda_, n, out) ==
    [op |-> "v_axial", v_mean |-> v_mean, d_pipe |-> d_pipe, r |-> r, nu |-> nu,
     lambda_ |-> lambda_, n |-> n, Re |-> out.Re, regime |-> out.regime,
     ret |-> out.ret]

\* a call of v_axial, after the caller took the result of any earlier call
VAxial(v_mean, d_pipe, r, nu, lambda_, n) ==
    /\ last.op = "idle"
    /\ last' = PipeCall(v_mean, d_pipe, r, nu, lambda_, n,
                        v_axial(v_mean, d_pipe, r, nu, lambda_, n))
    /\ inst' = inst

Init == inst = NoInst /\ last = Idle

Next ==
    \/ \E cls \in Classes : \E u \in UnsetValues : Construct(cls, u)
    \/ \E name \in OverrideNames : \E c \in ConstsFor(name) : SetCalc(name, c)
    \/ SetAttr("E", Num(22, 8))
    \/ \E name \in PropNames : \E T \in Ts : \E p \in ps : \E x \in xs :
          Evaluate(name, T, p, x)
    \/ Return

Spec == Init /\ [][Next]_vars

NextPipe ==
    \/ \E v_mean \in v_means : \E d_pipe \in d_pipes : \E r \in rs :
       \E nu \in nus : \E lambda_ \in lambdas : \E n \in ns :
          VAxial(v_mean, d_pipe, r, nu, lambda_, n)
    \/ Return

SpecPipe == Init /\ [][NextPipe]_vars

NextPair ==
    \/ \E cls \in ConcreteClasses \cup {"Fluid"} : \E u \in UnsetValues :
          ConstructPair(cls, u)
    \/ \E name \in OverrideNames : \E c \in ConstsFor(name) : AssignOne(name, c)
    \/ SetRefOne(Whole(3))
    \/ \E name \in PropNames : \E T \in Ts : \E p \in ps :
          EvaluateTwo(name, T, p, Zero)
    \/ Return

SpecPair == Init /\ [][NextPair]_vars

NextReads ==
    \/ \E cls \in ConcreteClasses \cup {"Fluid"} : \E u \in UnsetValues :
          Construct(cls, u)
    \/ \E t \in 1..NThreads : \E name \in {"a", "beta", "c_p", "rho", "nu", "Pr"} :
          BeginRead(t, name, Whole(325), atm, Zero)
    \/ \E t \in 1..NThreads : EndRead(t)

SpecReads == Init /\ [][NextReads]_vars

NextEnvelope ==
    \/ \E cls \in ConcreteClasses : \E u \in UnsetValues : Construct(cls, u)
    \/ \E name \in PropNames : \E T \in EnvelopeTs : \E p \in EnvelopePs :
       \E x \in xs : Evaluate(name, T, p, x)
    \/ Return

SpecEnvelope == Init /\ [][NextEnvelope]_vars

NextInit ==
    \/ \E cls \in {"Air_interpolated", "Ar_interpolated", "Ar", "AISI304",
                   "Iron"} :
       \E u \in UnsetValues :
       \E comment \in {NoneVal, Special("a comment of the caller")} :
          BeginInit(cls, u, comment)
    \/ EnterInit
    \/ RunBody

SpecInit == Init /\ [][NextInit]_vars

NextGeneric ==
    \/ \E id \in {"Air", "Ar"} :
       \E name \in {"c_p", "rho", "lambda_", "mu", "nu"} :
       \E T \in EnvelopeTs \cup {Num(27316, -2), Whole(600), Num(6001, -1)} :
       \E p \in EnvelopePs : \E x \in xs :
          GenericCall(id, name, T, p, x)
    \/ Return

SpecGeneric == Init /\ [][NextGeneric]_vars

NextTable ==
    \/ \E t \in Tables : \E T \in LookupTs(t) : Lookup(t, T)
    \/ Return

SpecTable == Init /\ [][NextTable]_vars

(***************************************************************************)
(* Properties of the evaluation of a Matter instance (under Spec)          *)
(***************************************************************************)

\* the call that just returned was m.<name>(T, p, x)
Evaluated(name) == last.op = "eval" /\ last.prop = name

\* m.<name>.calc(T, p, x) at the state of the last call, with the rule the
\* member holds now
NowCalc(name) == CalcOf(inst, name, last.T, last.p, last.x, 1)

\* m.<name>() with the rule the member holds now
NowCall(name) == CallOf(inst, name, NoneVal, NoneVal, NoneVal, 1)

HoldsConst(name) == inst.calc[name].tag = "const"

\* C1: on a Fluid whose nu holds the default rule and whose mu and rho were
\* given constant rules (in any order, after any earlier overrides), nu(T, p, x)
\* is exactly the constant of mu divided by the constant of rho, the rules
\* assigned at evaluation time.
C1_LateBoundNu ==
    (/\ Evaluated("nu")
     /\ inst.calc["nu"].tag = "nu_default"
     /\ HoldsConst("mu")
     /\ HoldsConst("rho"))
    => /\ IsNum(last.ret)
       /\ last.ret = DivNum(inst.calc["mu"].c, inst.calc["rho"].c)

\* C1 happens: nu was evaluated on a Fluid after rho and mu were given the
\* constant rules 2 and 5, and returned 2.5
C1_Witness ==
    /\ Evaluated("nu")
    /\ inst.cls = "Fluid"
    /\ inst.calc["nu"].tag = "nu_default"
    /\ inst.calc["mu"] = ConstRule(Whole(5))
    /\ inst.calc["rho"] = ConstRule(Whole(2))
    /\ last.ret = Num(25, -1)

\* C2: the default rule of a returns lambda_.calc / (c_p.calc * rho.calc) with the
\* rules the three members hold when a is evaluated (Lambda in GenericMatter).
C2_DiffusivityRule ==
    (/\ Evaluated("a")
     /\ inst.calc["a"].tag \in {"a_default", "a_default_gm"})
    => last.ret =
         Div(NowCalc(IF inst.cls = "GenericMatter" THEN "Lambda" ELSE "lambda_"),
             Mul(NowCalc("c_p"), NowCalc("rho")))

\* C2 happens: a was evaluated on argon after rho's rule was replaced, and the
\* result is the number the tables and the new rho give
C2_Witness ==
    /\ Evaluated("a")
    /\ inst.cls = "Ar_interpolated"
    /\ inst.calc["a"].tag = "a_default"
    /\ inst.calc["rho"] = ConstRule(Whole(2))
    /\ last.T = Whole(325)
    /\ IsNum(last.ret)
    /\ last.ret = DivNum(Ar_lambda(Whole(325)), MulNum(Ar_c_p(Whole(325)), Whole(2)))

\* C3 (as claimed): after rho.calc of a concrete gas is replaced, its derived
\* viscosity is computed with the new rule: mu = nu * rho for Air_interpolated,
\* nu = mu / rho for Ar_interpolated.
C3_DerivedViscosityFollowsRho ==
    /\ (/\ Evaluated("mu")
        /\ inst.cls = "Air_interpolated"
        /\ inst.calc["mu"].tag = "Air_mu"
        /\ HoldsConst("rho"))
       => last.ret = Mul(NowCalc("nu"), NowCalc("rho"))
    /\ (/\ Evaluated("nu")
        /\ inst.cls = "Ar_interpolated"
        /\ inst.calc["nu"].tag = "Ar_nu"
        /\ HoldsConst("rho"))
       => last.ret = Div(NowCalc("mu"), NowCalc("rho"))

CircularFluid ==
    /\ last.op = "eval"
    /\ inst.calc["mu"].tag = "mu_default"
    /\ inst.calc["nu"].tag = "nu_default"

RhoIsDefault == inst.calc["rho"].tag \in {"rho_T", "rho_Tp"}

\* E is unset, or its rule returns a value below 1e-20
ENegligible ==
    \/ inst.calc["E"].tag = "unset"
    \/ HoldsConst("E") /\ Less(AbsNum(inst.calc["E"].c), Num(1, -20))

\* E was set to a value that is not negligible
ENonzero ==
    /\ inst.calc["E"].tag \in {"const", "float"}
    /\ ~Less(AbsNum(inst.calc["E"].c), Num(1, -20))

\* rho.ref / (1 + (T - rho.T.ref) * beta()) at the T of the last call
RhoThermal ==
    Div(inst.ref, Add(One, Mul(Sub(last.T, inst.Tref), NowCall("beta"))))

\* C6: with E unset or negligible and rho on its default rule, rho(T, p, x) is
\* rho.ref / (1 + (T - rho.T.ref) * beta()), whatever p and x are.
C6_RhoWithoutPressure ==
    (Evaluated("rho") /\ RhoIsDefault /\ ENegligible)
    => /\ last.ret = RhoThermal
       /\ \A p \in ps : \A x \in xs :
             CallOf(inst, "rho", last.T, p, x, 1) = last.ret

\* C6 happens: rho was evaluated above the reference pressure on a Matter with
\* a rule for beta and a negligible E, and returned a number
C6_Witness ==
    /\ Evaluated("rho")
    /\ RhoIsDefault
    /\ inst.calc["E"] = ConstRule(Zero)
    /\ HoldsConst("beta")
    /\ last.p # inst.pref
    /\ IsNum(last.ret)
    /\ last.ret # inst.ref

\* C7 (as claimed): with E set to a nonzero value and rho on its default rule,
\* rho(T, p, x) is the thermal term divided by 1 - (p - rho.p.ref) / E.
C7_RhoWithPressure ==
    (Evaluated("rho") /\ RhoIsDefault /\ ENonzero)
    => last.ret =
         Div(RhoThermal,
             Sub(One, Div(Sub(last.p, inst.pref), inst.calc["E"].c)))

PipeCalled == last.op = "v_axial" /\ ~IsErr(last.Re)

\* C9: a call that computes Re = v_mean * d_pipe / nu takes the laminar formula
\* if and only if Re < 2300, negative Re included, and the turbulent formula
\* otherwise, Re = 2300 included; the choice is a function of the arguments of
\* the call alone.
C9_RegimeByReynolds ==
    PipeCalled
    => /\ last.Re = Div(Mul(last.v_mean, last.d_pipe), last.nu)
       /\ last.regime \in {"laminar", "turbulent"}
       /\ (last.regime = "laminar") <=> (Cmp(last.Re, Whole(2300)) = -1)
       /\ (last.regime = "laminar")
          => last.ret = v_axial_laminar(last.v_mean, last.d_pipe, last.r)
       /\ (last.regime = "turbulent")
          => last.ret = v_axial_turbulent(last.v_mean, last.d_pipe, last.r,
                            reciprocal_of_n(last.lambda_, last.n),
                            last.lambda_.k # "None")

\* C9 happens: a call with Re exactly 2300 took the turbulent formula
C9_Witness ==
    /\ PipeCalled
    /\ last.Re = Whole(2300)
    /\ last.regime = "turbulent"
    /\ IsNum(last.ret)

\* 2 * v_mean * (1 - (2 r / d_pipe)^2) for the arguments of the last call
Parabola ==
    Mul(Mul(Whole(2), last.v_mean),
        Sub(One, Power(Div(Mul(Whole(2), last.r), last.d_pipe), Whole(2), FALSE)))

\* the last call was at the wall, r = d_pipe / 2
AtWall == last.r = Div(last.d_pipe, Whole(2))

Turbulent == PipeCalled /\ last.regime = "turbulent"

\* 1 / n for the n of the last call, an absent n taken as 6
ExponentN == Div(One, IF last.n = NoneVal THEN Whole(6) ELSE last.n)

\* v_mean * (m + 2) * (m + 1) / 2 for the last call and its 1 / n
VMaxN == Div(Mul(last.v_mean, Mul(Add(ExponentN, Whole(2)), Add(ExponentN, One))),
             Whole(2))

\* C11: in the turbulent regime without a friction coefficient and with m = 1/n,
\* v_axial returns v_mean * (m+2) * (m+1) / 2 * (1 - 2r/d_pipe)^m: that is
\* v_mean * (m+2) * (m+1) / 2 at the centerline, (13/6) * (7/6) / 2 for n = 6 and
\* v_mean = 1, and 0 at the wall r = d_pipe / 2.
C11_TurbulentProfile ==
    (Turbulent /\ last.lambda_ = NoneVal /\ ~IsErr(ExponentN))
    => /\ last.ret =
            Mul(VMaxN,
                Power(Sub(One, Div(Mul(Whole(2), last.r), last.d_pipe)),
                      ExponentN, FALSE))
       /\ (last.r = Zero) => last.ret = VMaxN
       /\ (last.r = Zero /\ last.n = Whole(6) /\ last.v_mean = One)
          => last.ret = Div(Mul(Div(Whole(13), Whole(6)), Div(Whole(7), Whole(6))),
                            Whole(2))
       /\ AtWall => last.ret = Zero

\* C11 happens: the call v_mean = 1, d_pipe = 1, nu = 1e-6, n = 6 at the
\* centerline returned (13/6) * (7/6) / 2
C11_Witness ==
    /\ Turbulent
    /\ last.lambda_ = NoneVal
    /\ last.n = Whole(6)
    /\ last.v_mean = One
    /\ last.d_pipe = One
    /\ last.nu = Num(1, -6)
    /\ last.r = Zero
    /\ IsNum(last.ret)
    /\ last.ret = Div(Mul(Div(Whole(13), Whole(6)), Div(Whole(7), Whole(6))),
                      Whole(2))

\* C12: in the turbulent regime the exponent is sqrt(lambda_) whenever lambda_
\* is given, whatever n is; only without lambda_ it is 1 / n, and an absent n
\* counts as 6.
C12_ExponentChoice ==
    Turbulent
    => /\ (last.lambda_ # NoneVal)
          => /\ last.ret = v_axial_turbulent(last.v_mean, last.d_pipe, last.r,
                               Sqrt(last.lambda_), TRUE)
             /\ \A n \in ns :
                   v_axial(last.v_mean, last.d_pipe, last.r, last.nu,
                           last.lambda_, n).ret = last.ret
       /\ (last.lambda_ = NoneVal)
          => last.ret = v_axial_turbulent(last.v_mean, last.d_pipe, last.r,
                            ExponentN, FALSE)
       /\ (last.lambda_ = NoneVal /\ last.n = NoneVal)
          => last.ret = v_axial(last.v_mean, last.d_pipe, last.r, last.nu,
                                NoneVal, Whole(6)).ret

\* C12 happens: the call v_mean = 2300, d_pipe = 1, nu = 1 with lambda_ = 0.04
\* and n = 0 returned 2300 * 2.2 * 1.2 / 2 at the centerline, the value of the
\* exponent 0.2
C12_Witness ==
    /\ Turbulent
    /\ last.lambda_ = Num(4, -2)
    /\ last.n = Zero
    /\ last.v_mean = Whole(2300)
    /\ last.r = Zero
    /\ last.ret = Whole(3036)

\* C13 (as claimed): no call of v_axial with numeric arguments raises.
C13_NeverRaises == (last.op = "v_axial") => ~IsErr(last.ret)

(***************************************************************************)
(* Properties of the table lookups (under SpecTable)                       *)
(***************************************************************************)

\* the call that just returned was a table method
LookedUp == last.op = "lookup"

\* the indices of the table of the last call
Samples == 1..Len(TableTp(last.table))

\* C19: the lookup is exact at every sample point: called with the sample
\* temperature T_i, every table method returns the sample value U_i.
C19_ExactAtSamples ==
    LookedUp
    => \A i \in Samples :
          (TableTp(last.table)[i] = last.T) => last.ret = TableUp(last.table)[i]

\* C19 happens: Iron._c_p was called with the sample 1184.1 next to the sample
\* 1184 and returned 610
C19_Witness ==
    /\ LookedUp
    /\ last.table = "Iron_c_p"
    /\ last.T = Num(11841, -1)
    /\ last.ret = Whole(610)

\* C20: the lookup clamps: below the first sample temperature every table
\* method returns the first sample value, above the last sample temperature the
\* last sample value.
C20_Clamps ==
    LookedUp
    => /\ Less(last.T, TableTp(last.table)[1])
          => last.ret = TableUp(last.table)[1]
       /\ Less(TableTp(last.table)[Len(TableTp(last.table))], last.T)
          => last.ret = TableUp(last.table)[Len(TableTp(last.table))]

\* C20 happens: Ar_interpolated._mu was called with 4000 K, above its last
\* sample, and returned the last value 48.7e-6
C20_Witness ==
    /\ LookedUp
    /\ last.table = "Ar_mu"
    /\ last.T = Whole(4000)
    /\ last.ret = Num(487, -7)

\* the member holds a Property whose calc can be assigned
Assignable(m, name) == m.calc[name].tag \notin {"absent", "float"}

\* m after n1.calc = lambda: c1 and then n2.calc = lambda: c2
InOrder(m, n1, c1, n2, c2) == SetCalcObj(SetCalcObj(m, n1, c1), n2, c2)

\* the instance as its constructors left it
Fresh == [inst EXCEPT !.calc = inst.wired]

TwoAsBuilt == New(inst.two.cls, inst.two.unset).obj

Concrete == inst.cls \in ConcreteClasses

WiredProp == inst.calc[last.prop].tag \notin {"unset", "absent", "float"}

\* C15 (as claimed): evaluating a wired property of a concrete substance at a
\* numeric (T, p, x), T <= 0 and T or p outside the operational ranges
\* included, returns a value and never raises.
C15_NeverRefuses ==
    (Concrete /\ last.op = "eval" /\ WiredProp) => ~IsErr(last.ret)

(***************************************************************************)
(* Further properties of the table lookups (under SpecTable)               *)
(***************************************************************************)

\* the sample values of table t do not decrease with the sample temperature
NonDecreasing(t) ==
    \A i \in 1..(Len(TableUp(t)) - 1) : ~Less(TableUp(t)[i + 1], TableUp(t)[i])

\* C21: if the sample values of a table do not decrease with the sample
\* temperature, then the lookup does not decrease either: for the temperature
\* T of a call and every other temperature T2, below, between and above
\* the samples, T <= T2 implies lookup(T) <= lookup(T2) and T2 <= T implies
\* lookup(T2) <= lookup(T).
C21_MonotoneLookup ==
    (LookedUp /\ NonDecreasing(last.table))
    => \A T2 \in LookupTs(last.table) :
          /\ ~Less(T2, last.T)
             => ~Less(TableMethod(last.table, T2), last.ret)
          /\ ~Less(last.T, T2)
             => ~Less(last.ret, TableMethod(last.table, T2))

\* C21 happens: Air_interpolated._nu, whose samples rise, was called between
\* two samples and returned a value between the values at 4000 K and at 0 K
C21_Witness ==
    /\ LookedUp
    /\ last.table = "Air_nu"
    /\ NonDecreasing("Air_nu")
    /\ last.T = Whole(325)
    /\ Less(TableMethod("Air_nu", Zero), last.ret)
    /\ Less(last.ret, TableMethod("Air_nu", Whole(4000)))

\* the sample temperatures of table t increase strictly, and t has as many
\* values as temperatures, at least 2
WellFormed(t) ==
    /\ Len(TableTp(t)) = Len(TableUp(t))
    /\ Len(TableTp(t)) >= 2
    /\ \A i \in 1..(Len(TableTp(t)) - 1) : Less(TableTp(t)[i], TableTp(t)[i + 1])

\* C22 (as claimed): every table a concrete substance uses as a calc rule is
\* well-formed, with strictly increasing sample temperatures and as many
\* values as temperatures, at least 2; a lookup in a table that is not
\* well-formed is rejected with InvalidTable and returns no value.
C22_WellFormedOrRejected ==
    LookedUp
    => \/ WellFormed(last.table)
       \/ last.ret = Special("InvalidTable")

(***************************************************************************)
(* Properties of the construction of the concrete substances (under        *)
(* SpecEnvelope)                                                           *)
(***************************************************************************)

\* the property slots the categories of the class declare: those of the
\* root, and mu, nu (and Pr in matter.py) for fluids
CategorySlots(cls) ==
    IF cls = "Iron"
    THEN {"rho", "beta", "c_p", "c_sound", "Lambda", "a", "E", "rho_el",
          "mu", "nu"}
    ELSE {"rho", "beta", "c_p", "c_sound", "lambda_", "a", "E", "rho_el",
          "mu", "nu", "Pr"}

\* C23 (as claimed): after the construction of a concrete substance every
\* property slot its categories declare holds a Property object: the
\* constructor reassigns calc rules and references and replaces no slot by a
\* value that is not a Property.
C23_SlotsHoldProperty ==
    Concrete
    => \A n \in CategorySlots(inst.cls) :
          inst.calc[n].tag \notin {"absent", "float"}

(***************************************************************************)
(* Further properties of the evaluation of a Matter instance (under Spec)  *)
(***************************************************************************)

\* C26: on every instance whose Pr holds the rule Fluid's constructor wired,
\* the concrete gases with tables included, Pr(T, p, x) is a.calc(T, p, x) /
\* nu.calc(T, p, x) with the rules a and nu hold when Pr is evaluated.
C26_PrandtlRule ==
    (Evaluated("Pr") /\ inst.calc["Pr"].tag = "Pr_default")
    => last.ret = Div(NowCalc("a"), NowCalc("nu"))

\* C26 happens: Pr of an Air_interpolated whose nu.calc was reassigned to the
\* constant 2 was evaluated at 325 K and returned the table values
\* lambda / (c_p * rho) divided by 2
C26_Witness ==
    /\ Evaluated("Pr")
    /\ inst.cls = "Air_interpolated"
    /\ inst.calc["Pr"].tag = "Pr_default"
    /\ inst.calc["nu"] = ConstRule(Whole(2))
    /\ last.T = Whole(325)
    /\ IsNum(last.ret)
    /\ last.ret =
         DivNum(DivNum(Air_lambda(Whole(325)),
                       MulNum(Air_c_p(Whole(325)), Air_rho(Whole(325)))),
                Whole(2))

\* rho of m at its reference temperature and reference pressure
RhoAtReference(m, x) == CallOf(m, "rho", m.Tref, m.pref, x, 1)

\* C28: the default density rule reproduces the reference state.  On every
\* instance whose rho holds the rule its constructor chose and whose beta()
\* returns a number, rho(rho.T.ref, rho.p.ref, x) is rho.ref for every x; the
\* rule of the other branch, with the pressure term, gives rho.ref at the
\* reference state as well when E() returns a number other than 0.
C28_ReferenceState ==
    (/\ inst.cls # "none"
     /\ RhoIsDefault
     /\ IsNum(NowCall("beta")))
    => \A x \in xs :
          /\ RhoAtReference(inst, x) = inst.ref
          /\ (IsNum(NowCall("E")) /\ NowCall("E") # Zero)
             => RhoAtReference([inst EXCEPT !.calc["rho"] = Rule("rho_Tp")], x)
                  = inst.ref

\* C28 happens: on a Fluid with beta.calc reassigned to 2 and E.calc to 2.2e9
\* rho was evaluated at 325 K and returned a number other than rho.ref, and at
\* the reference state rho is rho.ref
C28_Witness ==
    /\ Evaluated("rho")
    /\ inst.cls = "Fluid"
    /\ RhoIsDefault
    /\ inst.calc["beta"] = ConstRule(Whole(2))
    /\ inst.calc["E"] = ConstRule(Num(22, 8))
    /\ last.T = Whole(325)
    /\ IsNum(last.ret)
    /\ last.ret # inst.ref
    /\ RhoAtReference(inst, Zero) = inst.ref

(***************************************************************************)
(* Further properties of v_axial (under SpecPipe)                          *)
(***************************************************************************)

\* the last call had v_mean > 0 and d_pipe > 0 and a radial position inside
\* the pipe, -d_pipe / 2 <= r <= d_pipe / 2
InsidePipe ==
    /\ PipeCalled
    /\ Less(Zero, last.v_mean)
    /\ Less(Zero, last.d_pipe)
    /\ ~Less(Div(last.d_pipe, Whole(2)), AbsNum(last.r))

\* the result of the last call at the centerline, and at the mirrored position
AtCenterline ==
    v_axial(last.v_mean, last.d_pipe, Zero, last.nu, last.lambda_, last.n).ret

Mirrored ==
    v_axial(last.v_mean, last.d_pipe, Neg(last.r), last.nu, last.lambda_,
            last.n).ret

\* C27 (as claimed): inside the pipe, in the laminar and in the turbulent
\* regime alike, no velocity the call returns exceeds the velocity at the
\* centerline, and the velocity at r is the velocity at -r.
C27_CenterlineMaxAsClaimed ==
    (InsidePipe /\ IsNum(last.ret) /\ IsNum(AtCenterline) /\ IsNum(Mirrored))
    => /\ ~Less(AtCenterline, last.ret)
       /\ last.ret = Mirrored

\* the exponent m of the last call is positive: lambda_ > 0, or no lambda_ and
\* n > 0 or absent
PositiveExponent ==
    IF last.lambda_ = NoneVal
    THEN last.n = NoneVal \/ Less(Zero, last.n)
    ELSE Less(Zero, last.lambda_)

\* C27 (amended): inside the pipe the laminar profile has its maximum at the
\* centerline and is symmetric, v_axial(r) = v_axial(-r).  The turbulent
\* profile v_max * (1 - 2 r / d_pipe)^m with a positive exponent m is
\* one-sided: with 0 <= r <= d_pipe / 2 it does not exceed the centerline
\* velocity, with r < 0 it exceeds the centerline velocity.
C27_CenterlineMax ==
    InsidePipe
    => /\ (last.regime = "laminar")
          => /\ IsNum(last.ret)
             /\ ~Less(AtCenterline, last.ret)
             /\ last.ret = Mirrored
       /\ (/\ last.regime = "turbulent"
           /\ PositiveExponent
           /\ IsNum(last.ret) /\ IsNum(AtCenterline))
          => IF Less(last.r, Zero)
             THEN Less(AtCenterline, last.ret)
             ELSE ~Less(AtCenterline, last.ret)

\* C27 happens: a turbulent call with n = 1 at r = -0.5 in a pipe of diameter
\* 2 returned 1.5 times the velocity at the centerline
C27_Witness ==
    /\ InsidePipe
    /\ last.regime = "turbulent"
    /\ last.lambda_ = NoneVal
    /\ last.n = One
    /\ last.d_pipe = Whole(2)
    /\ last.r = Neg(Num(5, -1))
    /\ IsNum(last.ret)
    /\ last.ret = Mul(Num(15, -1), AtCenterline)

(***************************************************************************)
(* Properties of the gases of class _Generic (under SpecGeneric)           *)
(***************************************************************************)

\* the temperature of the last call, or the bound of [273.16, 600] nearest to
\* it
NearestInRange ==
    IF Less(last.T, Num(27316, -2)) THEN Num(27316, -2)
    ELSE IF Less(Whole(600), last.T) THEN Whole(600)
    ELSE last.T

\* C30: every query a method of a _Generic gas sends for c_p, rho, lambda_, mu
\* or nu carries a temperature within [273.16, 600] K, the nearest bound if the
\* caller's T is outside, and the caller's pressure unchanged; the result is
\* the result of the call with the nearest temperature in the range; and nu
\* is the answer for mu divided by the answer for rho at the same clipped
\* temperature.
C30_QueriesClipped ==
    (last.op = "generic")
    => /\ \A i \in 1..Len(last.sent) :
             /\ ~Less(last.sent[i].T, Num(27316, -2))
             /\ ~Less(Whole(600), last.sent[i].T)
             /\ last.sent[i].T = NearestInRange
             /\ last.sent[i].p = last.p
       /\ last.ret = Generic_calc(last.prop, NearestInRange, last.p, last.id)
       /\ (last.prop = "nu")
          => /\ Len(last.sent) = 2
             /\ last.sent[1].out = "mu" /\ last.sent[2].out = "rho"
             /\ last.ret = Div(PropsSI(last.sent[1], last.id),
                               PropsSI(last.sent[2], last.id))

\* C30 happens: nu of argon was called at 4000 K and 1e9 Pa; both queries
\* carried 600 K and 1e9 Pa, and the result is the result at 600 K
C30_Witness ==
    /\ last.op = "generic"
    /\ last.id = "Ar"
    /\ last.prop = "nu"
    /\ last.T = Whole(4000)
    /\ last.p = Num(1, 9)
    /\ last.sent[1].T = Whole(600)
    /\ last.sent[2].p = Num(1, 9)
    /\ IsNum(last.ret)
    /\ last.ret # Generic_calc("nu", Whole(325), last.p, "Ar")

(***************************************************************************)
(* Properties of the construction step by step (under SpecInit)            *)
(***************************************************************************)

\* the constructor call has returned an instance
Completed ==
    /\ last.op = "init"
    /\ last.enter = <<>>
    /\ last.frames = <<>>
    /\ ~IsErr(last.exc)

IronOrder ==
    <<"Property", "GenericMatter", "gm.Fluid", "gm.Liquid", "gm.Solid",
      "gm.Metal", "gm.Ferrous", "Iron">>

C29_CommentKept ==
    (Completed /\ last.arg # NoneVal) => last.comment = last.arg

====
